---- MODULE Spec2Model ----
(***************************************************************************)
(* demuxrs: a protocol demultiplexer.  Two parts of the program are        *)
(* modelled here:                                                          *)
(*   - the recognizers and detect() of src/src/detect.rs, as operators     *)
(*     over byte sequences (bytes are their integer values), exercised by  *)
(*     the specification SpecDetect over a growing prefix;                 *)
(*   - handle_connection() and handle_proxy() of src/src/main.rs, as the   *)
(*     state machine Spec of one accepted connection with its client, its  *)
(*     upstream and the detection timer.                                   *)
(***************************************************************************)
EXTENDS Integers, Sequences, FiniteSets, TLC

VARIABLES
    \* ---- SpecDetect: a prefix grown piece by piece ----
    prefix,        \* the bytes handed to the recognizers
    npieces,       \* how many pieces were appended
    verdict,       \* protocol name -> DetectResult on prefix
    detected,      \* detect(prefix)
    everFailed,    \* names whose recognizer said Failure on an earlier prefix
    everSucceeded, \* names whose recognizer said Success on an earlier prefix
    \* ---- Spec: one connection ----
    cdata,         \* everything the client will send, in order
    sdata,         \* everything the upstream will send, in order
    grain,         \* granularity of this client's sends and of the reads
    upstreams,     \* Config.upstreams: the protocols with a configured address
    csent,         \* bytes of cdata the client has sent so far
    ceof,          \* the client has closed its write side
    ssent,         \* bytes of sdata the upstream has sent so far
    seof,          \* the upstream has closed its write side
    pc,            \* position of the connection's coroutine
    buf,           \* handle_connection's buf, up to its highest written index
    nread,         \* handle_connection's nread
    cread,         \* bytes taken from the client socket so far
    sread,         \* bytes taken from the upstream socket so far
    elapsed,       \* ticks since the current timer was armed
    age,           \* ticks since the connection was accepted
    proto,         \* the protocol handle_proxy was called with, or None
    dials,         \* number of TcpStream::connect calls
    scratch,       \* handle_proxy's buf, up to its highest written index
    upRecv,        \* bytes written to the upstream socket
    clRecv,        \* bytes written to the client socket
    shut,          \* the client socket was shut down in both directions
    cconn,         \* the client TcpStream: "open" or "closed" (dropped)
    sconn,         \* the upstream TcpStream: "none", "open" or "closed"
    exit,          \* how the coroutine ended, "" while it runs
    result,        \* what it returned: "Ok", "Err", "" while it runs
    \* ---- SpecMain: the accept loop and the coroutines it spawned ----
    listener,      \* main's coroutine: "accepting", or "stopped" (returned)
    conns          \* the spawned coroutines in accept order: where each waits,
                   \* the event it was woken by, what it returned

detectVars == <<prefix, npieces, verdict, detected, everFailed, everSucceeded>>
connVars == <<cdata, sdata, grain, upstreams, csent, ceof, ssent, seof, pc, buf,
              nread, cread, sread, elapsed, age, proto, dials, scratch, upRecv,
              clRecv, shut, cconn, sconn, exit, result>>
mainVars == <<listener, conns>>
vars == <<detectVars, connVars, mainVars>>

None == "none"

\* ------------------------------------------------------------ byte strings

B_SSH == <<83, 83, 72, 45>>
B_HTTP == <<72, 84, 84, 80>>
B_GET == <<71, 69, 84>>
B_PUT == <<80, 85, 84>>
B_HEAD == <<72, 69, 65, 68>>
B_POST == <<80, 79, 83, 84>>
B_TRACE == <<84, 82, 65, 67, 69>>
B_DELETE == <<68, 69, 76, 69, 84, 69>>
B_CONNECT == <<67, 79, 78, 78, 69, 67, 84>>
B_OPTIONS == <<79, 80, 84, 73, 79, 78, 83>>
B_JABBER == <<106, 97, 98, 98, 101, 114>>

Min(a, b) == IF a < b THEN a ELSE b

\* buf[..n]
Take(s, n) == SubSeq(s, 1, n)

\* buf[n..]
Drop(s, n) == SubSeq(s, n + 1, Len(s))

\* slice::windows(n): the i-th contiguous window of n bytes; there are
\* Len(s) - n + 1 of them, none when the slice is shorter than n.
Window(s, n, i) == SubSeq(s, i, i + n - 1)

\* buf.windows(pat.len()).any(|b| b == pat)
WindowsAny(s, pat) ==
    \E i \in 1..(Len(s) - Len(pat) + 1) : Window(s, Len(pat), i) = pat

\* slice::starts_with
StartsWith(s, pat) == Len(s) >= Len(pat) /\ Take(s, Len(pat)) = pat

\* ------------------------------------------------------------ detect.rs

Success == "Success"
Failure == "Failure"
NotEnoughData == "NotEnoughData"

TlsMin == 3
SshMin == 4
HttpMin == 3
XmppMin == 50

\* The version byte left unchecked.
TlsVersionAlways(b) == TRUE

TlsVersionOk(b) == b <= 3

detect_is_tls(b) ==
    IF Len(b) < TlsMin THEN NotEnoughData
    ELSE IF b[1] = 22 /\ b[2] = 3 /\ TlsVersionOk(b[3]) THEN Success
    ELSE Failure

\* detect_is_ssh searching for "SSH-" anywhere instead of at the start.
detect_is_ssh_anywhere(b) ==
    IF Len(b) < SshMin THEN NotEnoughData
    ELSE IF WindowsAny(b, B_SSH) THEN Success
    ELSE Failure

\* detect_is_ssh comparing the whole buffer with "SSH-".
detect_is_ssh_exact(b) ==
    IF Len(b) < SshMin THEN NotEnoughData
    ELSE IF b = B_SSH THEN Success
    ELSE Failure

detect_is_ssh(b) ==
    IF Len(b) < SshMin THEN NotEnoughData
    ELSE IF StartsWith(b, B_SSH) THEN Success
    ELSE Failure

methods == <<B_GET, B_PUT, B_HEAD, B_POST, B_TRACE, B_DELETE, B_CONNECT, B_OPTIONS>>

detect_is_http(b) ==
    IF Len(b) < HttpMin THEN NotEnoughData
    ELSE IF WindowsAny(b, B_HTTP) THEN Success
    ELSE IF \E m \in 1..Len(methods) : WindowsAny(b, methods[m]) THEN Success
    ELSE Failure

detect_is_xmpp(b) ==
    IF Len(b) < XmppMin THEN NotEnoughData
    ELSE IF WindowsAny(b, B_JABBER) THEN Success
    ELSE Failure

\* The registry with ssh listed before http.
PROTOCOLS_swapped == <<"tls", "ssh", "http", "xmpp">>

\* The registry's names, in its order.
PROTOCOLS == <<"tls", "http", "ssh", "xmpp">>

\* The registry's recognizer for a name.
Recognize(name, b) ==
    CASE name = "tls" -> detect_is_tls(b)
      [] name = "http" -> detect_is_http(b)
      [] name = "ssh" -> detect_is_ssh(b)
      [] name = "xmpp" -> detect_is_xmpp(b)

RECURSIVE detectFrom(_, _)
detectFrom(i, b) ==
    IF i > Len(PROTOCOLS) THEN None
    ELSE IF Recognize(PROTOCOLS[i], b) = Success THEN PROTOCOLS[i]
    ELSE detectFrom(i + 1, b)

detect(b) == detectFrom(1, b)

protocol_names == { PROTOCOLS[i] : i \in 1..Len(PROTOCOLS) }

Verdicts(b) == [n \in protocol_names |-> Recognize(n, b)]

\* ------------------------------------------------------------ main.rs
\* One accepted connection: handle_connection, then handle_proxy.  The
\* coroutine runs from one blocking point to the next in one step; time
\* passes only while it is blocked in select! with nothing to read.

BufLen == 1024
ScratchLen == 16 * 1024

\* Ticks of the detection timer (Config.timeout) and the latest tick at
\* which the client still sends.
Timeout == 2
MaxAge == 3

\* Ticks past the timeout for which an idle relay is followed.
MaxIdle == 1

\* The timer set to twice config.timeout.
TimerDelayDoubled == 2 * Timeout

\* timer.set_timeout(config.timeout)
TimerDelay == Timeout

\* Config::upstream_for falling back to the protocol asked for.
upstream_for_default(p) == p

\* Config::upstream_for
upstream_for(p) == IF p \in upstreams THEN p ELSE None

\* Bytes the peer has sent that the proxy has not read yet.
cavail == csent - cread
savail == ssent - sread

\* What one read() may return with `avail` bytes queued and room for `cap`:
\* at least one byte, at most what is there and what fits.  Of these the
\* multiples of the connection's grain are explored, and all there is.
ReadSizes(avail, cap) ==
    LET m == Min(avail, cap) IN
    IF m <= 0 THEN {}
    ELSE { k * grain : k \in 1..(m \div grain) } \cup {m}

\* The two byte arrays (buf of handle_connection, buf of handle_proxy) are
\* kept up to the highest index written so far; every byte beyond it is the
\* 0 the array was created with.

\* read(&mut b) storing `data` at the start of the array instead of at off.
ReadIntoStart(b, off, data) ==
    data \o Drop(Take(b, off) \o [i \in 1..Len(data) |-> 0], Len(data))

\* read(&mut b[off..]) storing `data`: bytes before off and after the data
\* stay as they were.
ReadInto(b, off, data) == Take(b, off) \o data \o Drop(b, off + Len(data))

\* &buf[..nread]
Slice(b, n) == Take(b, n)

\* handle_proxy's initial_buf handed the whole array.
initial_buf_whole == [i \in 1..BufLen |-> IF i <= Len(buf) THEN buf[i] ELSE 0]

\* handle_proxy's initial_buf: &buf[..nread] of handle_connection
initial_buf == Slice(buf, nread)

\* &buf[..n] of handle_proxy's buffer reaching to the longest read so far.
ScratchSliceStale(b, n) == b

\* &buf[..n] of handle_proxy's buffer
ScratchSlice(b, n) == Take(b, n)

\* The coroutine returns: its TcpStreams are dropped.
Return(how, res) ==
    /\ pc' = "done"
    /\ exit' = how
    /\ result' = res
    /\ cconn' = "closed"
    /\ sconn' = IF sconn = "open" THEN "closed" ELSE sconn

\* main.rs:91-98: loop head.
LoopHead ==
    /\ pc = "loop"
    /\ IF nread = BufLen
         THEN pc' = "final" /\ UNCHANGED elapsed
         ELSE pc' = "select" /\ elapsed' = 0
    /\ UNCHANGED <<detectVars, mainVars, cdata, sdata, grain, upstreams, csent, ceof, ssent,
                   seof, buf, nread, cread, sread, age, proto, dials, scratch,
                   upRecv, clRecv, shut, cconn, sconn, exit, result>>

\* ReadData running detect before nread is advanced.
ReadDataDetectStale(n) ==
    /\ pc = "select"
    /\ buf' = ReadInto(buf, nread, SubSeq(cdata, cread + 1, cread + n))
    /\ nread' = nread + n
    /\ cread' = cread + n
    /\ LET protocol == detect(Slice(buf', nread)) IN
         IF protocol = None
           THEN pc' = "loop" /\ UNCHANGED proto
           ELSE pc' = "proxy" /\ proto' = protocol
    /\ UNCHANGED <<detectVars, mainVars, cdata, sdata, grain, upstreams, csent, ceof, ssent,
                   seof, sread, elapsed, age, dials, scratch, upRecv, clRecv,
                   shut, cconn, sconn, exit, result>>

\* ReadData giving up when no recognizer matched and all four said Failure.
ReadDataStickyReject(n) ==
    /\ pc = "select"
    /\ buf' = ReadInto(buf, nread, SubSeq(cdata, cread + 1, cread + n))
    /\ nread' = nread + n
    /\ cread' = cread + n
    /\ LET protocol == detect(Slice(buf', nread')) IN
         IF protocol = None
           THEN IF \A name \in protocol_names :
                      Recognize(name, Slice(buf', nread')) = Failure
                  THEN Return("gaveup", "Ok") /\ UNCHANGED proto
                  ELSE /\ pc' = "loop"
                       /\ UNCHANGED <<proto, cconn, sconn, exit, result>>
           ELSE /\ pc' = "proxy" /\ proto' = protocol
                /\ UNCHANGED <<cconn, sconn, exit, result>>
    /\ UNCHANGED <<detectVars, mainVars, cdata, sdata, grain, upstreams, csent, ceof, ssent,
                   seof, sread, elapsed, age, dials, scratch, upRecv, clRecv,
                   shut>>

\* ReadData leaving nread as it was.
ReadDataNoAdvance(n) ==
    /\ pc = "select"
    /\ buf' = ReadInto(buf, nread, SubSeq(cdata, cread + 1, cread + n))
    /\ cread' = cread + n
    /\ LET protocol == detect(Slice(buf', nread)) IN
         IF protocol = None
           THEN pc' = "loop" /\ UNCHANGED proto
           ELSE pc' = "proxy" /\ proto' = protocol
    /\ UNCHANGED <<detectVars, mainVars, cdata, sdata, grain, upstreams, csent, ceof, ssent,
                   seof, nread, sread, elapsed, age, dials, scratch, upRecv,
                   clRecv, shut, cconn, sconn, exit, result>>

\* main.rs:101-108, 119-126: the client is readable and read() returns n > 0.
ReadData(n) ==
    /\ pc = "select"
    /\ buf' = ReadInto(buf, nread, SubSeq(cdata, cread + 1, cread + n))
    /\ nread' = nread + n
    /\ cread' = cread + n
    /\ LET protocol == detect(Slice(buf', nread')) IN
         IF protocol = None
           THEN pc' = "loop" /\ UNCHANGED proto
           ELSE pc' = "proxy" /\ proto' = protocol
    /\ UNCHANGED <<detectVars, mainVars, cdata, sdata, grain, upstreams, csent, ceof, ssent,
                   seof, sread, elapsed, age, dials, scratch, upRecv, clRecv,
                   shut, cconn, sconn, exit, result>>

\* main.rs:102-106: read() returns 0.
ReadEof ==
    /\ pc = "select"
    /\ cavail = 0 /\ ceof
    /\ pc' = "final"
    /\ UNCHANGED <<detectVars, mainVars, cdata, sdata, grain, upstreams, csent, ceof, ssent,
                   seof, buf, nread, cread, sread, elapsed, age, proto, dials,
                   scratch, upRecv, clRecv, shut, cconn, sconn, exit, result>>

\* main.rs:102: read() fails and try! returns the error.
ReadErr ==
    /\ pc = "select"
    /\ Return("ioerr", "Err")
    /\ UNCHANGED <<detectVars, mainVars, cdata, sdata, grain, upstreams, csent, ceof, ssent,
                   seof, buf, nread, cread, sread, elapsed, age, proto, dials,
                   scratch, upRecv, clRecv, shut>>

\* TimerFires returning without conn.shutdown.
TimerFiresNoShutdown ==
    /\ pc = "select"
    /\ elapsed >= TimerDelay
    /\ Return("timeout", "Ok")
    /\ UNCHANGED <<detectVars, mainVars, cdata, sdata, grain, upstreams, csent, ceof, ssent,
                   seof, buf, nread, cread, sread, elapsed, age, proto, dials,
                   scratch, upRecv, clRecv, shut>>

\* TimerFires with the timer also watched by the relay select!.
TimerFiresInRelay ==
    /\ pc \in {"select", "relay"}
    /\ elapsed >= TimerDelay
    /\ shut' = TRUE
    /\ Return("timeout", "Ok")
    /\ UNCHANGED <<detectVars, mainVars, cdata, sdata, grain, upstreams, csent, ceof, ssent,
                   seof, buf, nread, cread, sread, elapsed, age, proto, dials,
                   scratch, upRecv, clRecv>>

\* main.rs:111-116: the timer fires.
TimerFires ==
    /\ pc = "select"
    /\ elapsed >= TimerDelay
    /\ shut' = TRUE
    /\ Return("timeout", "Ok")
    /\ UNCHANGED <<detectVars, mainVars, cdata, sdata, grain, upstreams, csent, ceof, ssent,
                   seof, buf, nread, cread, sread, elapsed, age, proto, dials,
                   scratch, upRecv, clRecv>>

\* main.rs:129-136: the final detect after the loop.
FinalDetect ==
    /\ pc = "final"
    /\ LET protocol == detect(Slice(buf, nread)) IN
         IF protocol = None
           THEN Return("gaveup", "Ok") /\ UNCHANGED proto
           ELSE /\ pc' = "proxy" /\ proto' = protocol
                /\ UNCHANGED <<cconn, sconn, exit, result>>
    /\ UNCHANGED <<detectVars, mainVars, cdata, sdata, grain, upstreams, csent, ceof, ssent,
                   seof, buf, nread, cread, sread, elapsed, age, dials, scratch,
                   upRecv, clRecv, shut>>

\* main.rs:47-53: handle_proxy looks the upstream up.
Lookup ==
    /\ pc = "proxy"
    /\ IF upstream_for(proto) = None
         THEN Return("noupstream", "Ok")
         ELSE pc' = "connect" /\ UNCHANGED <<cconn, sconn, exit, result>>
    /\ UNCHANGED <<detectVars, mainVars, cdata, sdata, grain, upstreams, csent, ceof, ssent,
                   seof, buf, nread, cread, sread, elapsed, age, proto, dials,
                   scratch, upRecv, clRecv, shut>>

\* Connect with a failed dial swallowed: handle_proxy returns Ok.
ConnectSwallowsFailure(ok) ==
    /\ pc = "connect"
    /\ dials' = dials + 1
    /\ IF ok
         THEN pc' = "replay" /\ sconn' = "open" /\ UNCHANGED <<cconn, exit, result>>
         ELSE Return("dialerr", "Ok")
    /\ UNCHANGED <<detectVars, mainVars, cdata, sdata, grain, upstreams, csent, ceof, ssent,
                   seof, buf, nread, cread, sread, elapsed, age, proto, scratch,
                   upRecv, clRecv, shut>>

\* main.rs:54: TcpStream::connect succeeds or fails.
Connect(ok) ==
    /\ pc = "connect"
    /\ dials' = dials + 1
    /\ IF ok
         THEN pc' = "replay" /\ sconn' = "open" /\ UNCHANGED <<cconn, exit, result>>
         ELSE Return("dialerr", "Err")
    /\ UNCHANGED <<detectVars, mainVars, cdata, sdata, grain, upstreams, csent, ceof, ssent,
                   seof, buf, nread, cread, sread, elapsed, age, proto, scratch,
                   upRecv, clRecv, shut>>

\* What a write_all of `data` leaves written: all of it, or, when it fails,
\* nothing or all but the last byte.
Written(data, ok) ==
    IF ok THEN {data} ELSE {<<>>, Take(data, Len(data) - 1)}

\* Replay with the result of write_all ignored: the relay starts anyway.
ReplayIgnoresError(ok) ==
    /\ pc = "replay"
    /\ \E w \in Written(initial_buf, ok) : upRecv' = upRecv \o w
    /\ pc' = "relay"
    /\ UNCHANGED <<detectVars, mainVars, cdata, sdata, grain, upstreams, csent, ceof, ssent,
                   seof, buf, nread, cread, sread, elapsed, age, proto, dials,
                   scratch, clRecv, shut, cconn, sconn, exit, result>>

\* main.rs:57: the initial buffer is written to the upstream.
Replay(ok) ==
    /\ pc = "replay"
    /\ \E w \in Written(initial_buf, ok) : upRecv' = upRecv \o w
    /\ IF ok
         THEN pc' = "relay" /\ UNCHANGED <<cconn, sconn, exit, result>>
         ELSE Return("ioerr", "Err")
    /\ UNCHANGED <<detectVars, mainVars, cdata, sdata, grain, upstreams, csent, ceof, ssent,
                   seof, buf, nread, cread, sread, elapsed, age, proto, dials,
                   scratch, clRecv, shut>>

\* main.rs:62-70: the client is readable, n > 0 bytes are read and written
\* to the upstream.
RelayClientRead(n, ok) ==
    /\ pc = "relay"
    /\ scratch' = ReadInto(scratch, 0, SubSeq(cdata, cread + 1, cread + n))
    /\ cread' = cread + n
    /\ \E w \in Written(ScratchSlice(scratch', n), ok) : upRecv' = upRecv \o w
    /\ IF ok
         THEN UNCHANGED <<pc, cconn, sconn, exit, result>>
         ELSE Return("ioerr", "Err")
    /\ UNCHANGED <<detectVars, mainVars, cdata, sdata, grain, upstreams, csent, ceof, ssent,
                   seof, buf, nread, sread, elapsed, age, proto, dials, clRecv,
                   shut>>

\* main.rs:72-80: the upstream is readable, n > 0 bytes are read and written
\* to the client.
RelayServerRead(n, ok) ==
    /\ pc = "relay"
    /\ scratch' = ReadInto(scratch, 0, SubSeq(sdata, sread + 1, sread + n))
    /\ sread' = sread + n
    /\ \E w \in Written(ScratchSlice(scratch', n), ok) : clRecv' = clRecv \o w
    /\ IF ok
         THEN UNCHANGED <<pc, cconn, sconn, exit, result>>
         ELSE Return("ioerr", "Err")
    /\ UNCHANGED <<detectVars, mainVars, cdata, sdata, grain, upstreams, csent, ceof, ssent,
                   seof, buf, nread, cread, elapsed, age, proto, dials, upRecv,
                   shut>>

\* RelayEof with the zero-byte read reported as an error.
RelayEofIsError ==
    /\ pc = "relay"
    /\ \/ cavail = 0 /\ ceof
       \/ savail = 0 /\ seof
    /\ Return("relayeof", "Err")
    /\ UNCHANGED <<detectVars, mainVars, cdata, sdata, grain, upstreams, csent, ceof, ssent,
                   seof, buf, nread, cread, sread, elapsed, age, proto, dials,
                   scratch, upRecv, clRecv, shut>>

\* main.rs:63-66, 73-76, 84: a read returns 0 and the loop is left.
RelayEof ==
    /\ pc = "relay"
    /\ \/ cavail = 0 /\ ceof
       \/ savail = 0 /\ seof
    /\ Return("relayeof", "Ok")
    /\ UNCHANGED <<detectVars, mainVars, cdata, sdata, grain, upstreams, csent, ceof, ssent,
                   seof, buf, nread, cread, sread, elapsed, age, proto, dials,
                   scratch, upRecv, clRecv, shut>>

\* main.rs:63, 73: a read fails and try! returns the error.
RelayReadErr ==
    /\ pc = "relay"
    /\ Return("ioerr", "Err")
    /\ UNCHANGED <<detectVars, mainVars, cdata, sdata, grain, upstreams, csent, ceof, ssent,
                   seof, buf, nread, cread, sread, elapsed, age, proto, dials,
                   scratch, upRecv, clRecv, shut>>

\* A tick passes while the coroutine waits in the classification select!
\* with nothing to read and the timer not yet due.
Tick ==
    /\ pc = "select"
    /\ cavail = 0 /\ ~ceof
    /\ elapsed < TimerDelay
    /\ elapsed' = elapsed + 1
    /\ age' = age + 1
    /\ UNCHANGED <<detectVars, mainVars, cdata, sdata, grain, upstreams, csent, ceof, ssent,
                   seof, pc, buf, nread, cread, sread, proto, dials, scratch,
                   upRecv, clRecv, shut, cconn, sconn, exit, result>>

\* A tick passes while the coroutine waits in the relay select! with
\* nothing to read on either socket.  No timer is watched there.
RelayTick ==
    /\ pc = "relay"
    /\ cavail = 0 /\ ~ceof
    /\ savail = 0 /\ ~seof
    /\ elapsed < Timeout + MaxIdle
    /\ elapsed' = elapsed + 1
    /\ UNCHANGED <<detectVars, mainVars, cdata, sdata, grain, upstreams, csent, ceof, ssent,
                   seof, pc, buf, nread, cread, sread, age, proto, dials, scratch,
                   upRecv, clRecv, shut, cconn, sconn, exit, result>>

\* The client sends its next k bytes.
ClientSend(k) ==
    /\ cconn = "open" /\ ~ceof
    /\ age < MaxAge
    /\ csent' = csent + k
    /\ UNCHANGED <<detectVars, mainVars, cdata, sdata, grain, upstreams, ceof, ssent, seof,
                   pc, buf, nread, cread, sread, elapsed, age, proto, dials,
                   scratch, upRecv, clRecv, shut, cconn, sconn, exit, result>>

\* The client closes its write side.
ClientClose ==
    /\ cconn = "open" /\ ~ceof
    /\ csent = Len(cdata)
    /\ ceof' = TRUE
    /\ UNCHANGED <<detectVars, mainVars, cdata, sdata, grain, upstreams, csent, ssent, seof,
                   pc, buf, nread, cread, sread, elapsed, age, proto, dials,
                   scratch, upRecv, clRecv, shut, cconn, sconn, exit, result>>

\* The upstream sends its next k bytes.
UpstreamSend(k) ==
    /\ sconn = "open" /\ ~seof
    /\ ssent' = ssent + k
    /\ UNCHANGED <<detectVars, mainVars, cdata, sdata, grain, upstreams, csent, ceof, seof,
                   pc, buf, nread, cread, sread, elapsed, age, proto, dials,
                   scratch, upRecv, clRecv, shut, cconn, sconn, exit, result>>

\* The upstream closes its write side.
UpstreamClose ==
    /\ sconn = "open" /\ ~seof
    /\ ssent = Len(sdata)
    /\ seof' = TRUE
    /\ UNCHANGED <<detectVars, mainVars, cdata, sdata, grain, upstreams, csent, ceof, ssent,
                   pc, buf, nread, cread, sread, elapsed, age, proto, dials,
                   scratch, upRecv, clRecv, shut, cconn, sconn, exit, result>>

\* ---- the clients, upstreams and configurations explored

Fill(n, byte) == [i \in 1..n |-> byte]

\* A client stream with the granularity of its sends and of the reads.
Client(data, g) == [data |-> data, grain |-> g]

Block == 256

Clients ==
    { Client(<<>>, 1),
      Client(<<97, 98>>, 1),
      Client(<<97, 98, 99, 100>>, 1),
      Client(B_SSH \o B_GET \o <<10>>, 1),
      Client(<<22, 3, 1, 0, 45>>, 1),
      Client(B_GET \o <<32, 47>>, 1),
      Client(Fill(51, 32) \o B_JABBER \o <<32, 62, 10>>, 8),
      Client(Fill(BufLen + 6, 120), Block),
      Client(Fill(BufLen - 3, 120) \o B_GET \o <<10, 10>>, Block) }

Upstreams == { <<200, 201>> }

Configs == { {"tls", "ssh"}, {"http", "xmpp"} }

\* The connection has been accepted and handle_connection starts.
Init ==
    /\ prefix = <<>> /\ npieces = 0 /\ verdict = Verdicts(<<>>)
    /\ detected = None /\ everFailed = {} /\ everSucceeded = {}
    /\ \E c \in Clients : cdata = c.data /\ grain = c.grain
    /\ sdata \in Upstreams
    /\ upstreams \in Configs
    /\ csent = 0 /\ ceof = FALSE /\ ssent = 0 /\ seof = FALSE
    /\ pc = "loop" /\ buf = <<>> /\ nread = 0 /\ cread = 0 /\ sread = 0
    /\ elapsed = 0 /\ age = 0 /\ proto = None /\ dials = 0
    /\ scratch = <<>> /\ upRecv = <<>> /\ clRecv = <<>>
    /\ shut = FALSE /\ cconn = "open" /\ sconn = "none" /\ exit = ""
    /\ result = ""
    /\ listener = "accepting" /\ conns = <<>>

Step ==
    \/ LoopHead
    \/ \E n \in ReadSizes(cavail, BufLen - nread) : ReadData(n)
    \/ ReadEof
    \/ ReadErr
    \/ TimerFires
    \/ FinalDetect
    \/ Lookup
    \/ \E ok \in BOOLEAN : Connect(ok)
    \/ \E ok \in BOOLEAN : Replay(ok)
    \/ \E n \in ReadSizes(cavail, ScratchLen), ok \in BOOLEAN : RelayClientRead(n, ok)
    \/ \E n \in ReadSizes(savail, ScratchLen), ok \in BOOLEAN : RelayServerRead(n, ok)
    \/ RelayEof
    \/ RelayReadErr

Environment ==
    \/ \E k \in ReadSizes(Len(cdata) - csent, Len(cdata)) : ClientSend(k)
    \/ ClientClose
    \/ \E k \in 1..(Len(sdata) - ssent) : UpstreamSend(k)
    \/ UpstreamClose

Next == Step \/ Tick \/ RelayTick \/ Environment

Spec == Init /\ [][Next]_vars

\* The coroutine scheduler runs a coroutine that can run, and time passes.
\* Read errors and write failures are faults: nothing makes them happen.
FairSpec ==
    /\ Spec
    /\ WF_vars(Tick)
    /\ WF_vars(TimerFires)
    /\ WF_vars(LoopHead)
    /\ WF_vars(\E n \in ReadSizes(cavail, BufLen - nread) : ReadData(n))
    /\ WF_vars(ReadEof)
    /\ WF_vars(FinalDetect)
    /\ WF_vars(Lookup)

\* ---- claims about main.rs

IsPrefix(a, b) == Len(a) <= Len(b) /\ a = Take(b, Len(a))

\* C1: once the upstream is dialed, what it has received starts with the
\* classification buffer buf[..nread]; until that buffer is written whole
\* nothing was read from the upstream or from the client after
\* classification, and what follows it are the client's later bytes.
C1_PrefixFirst ==
    sconn # "none" =>
        IF Len(upRecv) < nread
          THEN /\ IsPrefix(upRecv, Take(buf, nread))
               /\ sread = 0 /\ cread = nread /\ clRecv = <<>>
          ELSE /\ Take(upRecv, nread) = Take(buf, nread)
               /\ IsPrefix(Drop(upRecv, nread), SubSeq(cdata, nread + 1, cread))

\* C1 witness: the relay has moved bytes both ways after the prefix.
C1_Witness ==
    /\ pc = "relay"
    /\ nread > 0
    /\ Len(upRecv) > nread
    /\ sread > 0

\* C2: what the upstream received is what was read from the client, in
\* order, and what the client received is what was read from the upstream;
\* between two relay steps, and when the relay ends on a zero-byte read,
\* nothing read is missing.
C2_ByteExactRelay ==
    /\ IsPrefix(upRecv, Take(cdata, cread))
    /\ IsPrefix(clRecv, Take(sdata, sread))
    /\ (pc = "relay" \/ exit = "relayeof") =>
          /\ upRecv = Take(cdata, cread)
          /\ clRecv = Take(sdata, sread)

\* C2 witness: everything was relayed both ways, and the scratch buffer
\* holds a short client read on top of a longer upstream read.
C2_Witness ==
    /\ pc = "relay"
    /\ cread > nread
    /\ upRecv = cdata
    /\ clRecv = sdata
    /\ Len(scratch) = Len(sdata)
    /\ scratch[1] = cdata[cread]
    /\ scratch[Len(scratch)] = sdata[Len(sdata)]

\* A client that sends fewer bytes than any recognizer's minimum and does
\* not close.
SilentShortClient == Len(cdata) < 3 /\ ~ceof

C7_Safety ==
    SilentShortClient =>
        /\ dials = 0 /\ sconn = "none" /\ proto = None
        /\ upRecv = <<>> /\ clRecv = <<>>
        /\ pc = "done" => exit \in {"timeout", "ioerr"}
        /\ exit = "timeout" => shut /\ cconn = "closed" /\ result = "Ok"

\* C7: a client that sends fewer than 3 bytes and stays silent is never
\* dialed for and never forwarded; unless its reads fail, it ends with the
\* timer firing, the socket shut down both ways, and it does end.
C7_SilentClientTimesOut ==
    /\ [](C7_Safety)
    /\ (Len(cdata) < 3) ~> (ceof \/ pc = "done")

\* C7 witness: the timer fired on a silent client that had sent two bytes.
C7_Witness ==
    /\ SilentShortClient
    /\ nread = 2
    /\ exit = "timeout"
    /\ shut

\* The connection is being classified.
Collecting == pc \in {"loop", "select", "final"}

\* C8 as claimed: a connection leaves Collecting no later than the timeout
\* after it was accepted.
C8_DeadlineFromAccept ==
    Collecting => age <= Timeout

\* C8 as amended: the timer is armed anew for every read, so a connection
\* waits at most the timeout for each read, and is in Collecting at most the
\* timeout times the number of reads that returned data, plus one.
C8_DeadlinePerRead ==
    Collecting =>
        /\ elapsed <= Timeout
        /\ age <= Timeout * (nread + 1)
        /\ nread <= BufLen

\* C8 witness: a client that trickles bytes is still being classified after
\* the timeout has passed since it was accepted.
C8_Witness ==
    /\ pc = "select"
    /\ nread > 0
    /\ age > Timeout

\* C9: when the loop is left without a match (buffer full or zero-byte
\* read) the final detect finds no protocol, nothing is dialed or written,
\* and the connection is closed.
C9_GaveUpNeverDials ==
    /\ pc = "final" =>
          /\ detect(Slice(buf, nread)) = None
          /\ dials = 0 /\ sconn = "none" /\ upRecv = <<>> /\ clRecv = <<>>
    /\ exit = "gaveup" =>
          /\ dials = 0 /\ sconn = "none" /\ upRecv = <<>> /\ clRecv = <<>>
          /\ proto = None /\ cconn = "closed"

\* C9 witness: the connection gave up with its buffer full.
C9_Witness ==
    /\ exit = "gaveup"
    /\ nread = BufLen

\* C10: a connection classified as a protocol without a configured upstream
\* is never dialed for, nothing is written to any socket, handle_proxy
\* returns Ok and the client connection is closed.
C10_NoUpstreamNoDial ==
    (proto # None /\ proto \notin upstreams) =>
        /\ dials = 0 /\ sconn = "none"
        /\ upRecv = <<>> /\ clRecv = <<>>
        /\ pc \in {"proxy", "done"}
        /\ pc = "done" => exit = "noupstream" /\ result = "Ok" /\ cconn = "closed"

\* C10 witness: http was detected where only other protocols have upstreams.
C10_Witness ==
    /\ exit = "noupstream"
    /\ proto = "http"
    /\ upstreams # {}

\* What the proxy has read and written on its two sockets.
ioVars == <<cread, sread, upRecv, clRecv>>

\* C11: a failed dial is returned as the error; it was the only dial, the
\* relay was never entered, nothing was written to the upstream or to the
\* client, and the client socket is closed.
C11_DialFailureDrops ==
    /\ dials <= 1
    /\ exit = "dialerr" =>
          /\ result = "Err"
          /\ dials = 1
          /\ pc = "done"
          /\ sconn = "none" /\ cconn = "closed"
          /\ upRecv = <<>> /\ clRecv = <<>>
          /\ sread = 0 /\ cread = nread

\* C11 witness: the dial failed for a classified connection.
C11_Witness ==
    /\ exit = "dialerr"
    /\ proto = "ssh"
    /\ nread >= 4

\* A read on one of the two sockets would return zero bytes.
ZeroRead == (cavail = 0 /\ ceof) \/ (savail = 0 /\ seof)

\* C12: the relay ends with "relayeof" only from the copy loop on a
\* zero-byte read; that step reads and writes nothing, returns Ok and
\* closes both sockets, and nothing is read or written afterwards.
C12_ZeroReadEndsRelay ==
    [][ /\ (exit = "" /\ exit' = "relayeof") =>
              /\ pc = "relay" /\ ZeroRead
              /\ pc' = "done" /\ result' = "Ok"
              /\ cconn' = "closed" /\ sconn' = "closed"
              /\ UNCHANGED ioVars
        /\ exit = "relayeof" =>
              UNCHANGED <<ioVars, pc, exit, result, cconn, sconn>> ]_vars

\* C12 witness: the upstream closed after its bytes were relayed, the client
\* did not, and the relay ended.
C12_Witness ==
    /\ exit = "relayeof"
    /\ seof /\ ~ceof
    /\ clRecv = sdata /\ sdata # <<>>
    /\ cconn = "closed" /\ sconn = "closed"

\* The step read or wrote, and its write_all left less written than was
\* read.
ShortWrite ==
    /\ ioVars' # ioVars
    /\ \/ upRecv' # Take(cdata, cread')
       \/ clRecv' # Take(sdata, sread')

\* C13: in the relay (the write of the initial buffer included) a step
\* whose write falls short, and every step that ends with an I/O error,
\* returns the error and closes both sockets; nothing is read or written
\* afterwards.
C13_RelayErrorEndsRelay ==
    [][ /\ (pc \in {"replay", "relay"} /\ ShortWrite) => exit' = "ioerr"
        /\ (pc \in {"replay", "relay"} /\ exit' = "ioerr") =>
              /\ pc' = "done" /\ result' = "Err"
              /\ cconn' = "closed" /\ sconn' = "closed"
        /\ exit = "ioerr" =>
              UNCHANGED <<ioVars, pc, exit, result, cconn, sconn>> ]_vars

\* C13 witness: a write to the upstream failed part way in the copy loop.
C13_Witness ==
    /\ exit = "ioerr"
    /\ cread > nread
    /\ Len(upRecv) > nread
    /\ upRecv # Take(cdata, cread)
    /\ sconn = "closed" /\ cconn = "closed"

\* C14: once handle_proxy has been entered the timer never ends the
\* connection: it is not shut down and does not end by timeout, however
\* long both peers stay idle; the copy loop is left only on a zero-byte read
\* or an I/O error.
C14_NoTimeoutAfterClassification ==
    /\ [](proto # None => ~shut /\ exit # "timeout")
    /\ [][ (pc = "relay" /\ pc' # "relay") =>
              /\ exit' \in {"relayeof", "ioerr"}
              /\ exit' = "relayeof" => ZeroRead ]_vars

\* C14 witness: a relay whose peers have both been idle for longer than the
\* timeout is still running.
C14_Witness ==
    /\ pc = "relay"
    /\ elapsed > Timeout
    /\ cavail = 0 /\ savail = 0 /\ ~ceof /\ ~seof
    /\ cconn = "open" /\ sconn = "open"

\* C17: nread never exceeds the buffer, buf[..nread] is the first nread
\* bytes the client sent, during classification nothing else was taken from
\* the socket, and a read never lowers nread nor changes a byte below it.
C17_PrefixBuffer ==
    /\ [](/\ nread <= BufLen
          /\ Len(buf) <= BufLen
          /\ Slice(buf, nread) = Take(cdata, nread)
          /\ Collecting => cread = nread)
    /\ [][ /\ nread' >= nread
           /\ Take(buf', nread) = Take(buf, nread) ]_vars

\* C17 witness: the buffer was filled to its last byte by a client that had
\* sent more, and the last read was cut to the room left.
C17_Witness ==
    /\ nread = BufLen
    /\ csent > BufLen
    /\ cread = BufLen
    /\ buf = Take(cdata, BufLen)

\* C18: after every read of the classification loop the connection is
\* classified iff detect finds a protocol in the bytes read so far, whatever
\* the recognizers said of shorter buffers; otherwise it goes on reading.
\* xmpp is chosen only with 50 bytes or more and "jabber" among them.
C18_RejectIsNotSticky ==
    /\ [](proto = "xmpp" => nread >= 50 /\ WindowsAny(Take(cdata, nread), B_JABBER))
    /\ [][ (pc = "select" /\ nread' > nread) =>
              LET d == detect(Take(cdata, nread')) IN
              IF d = None
                THEN pc' = "loop" /\ proto' = None /\ exit' = ""
                ELSE pc' = "proxy" /\ proto' = d ]_vars

\* C18 witness: with 56 bytes read every recognizer has said Failure, xmpp
\* among them, and the connection waits for more.
C18_Witness ==
    /\ pc = "select"
    /\ nread = 56
    /\ \A name \in {"tls", "http", "ssh", "xmpp"} :
          Recognize(name, Slice(buf, nread)) = Failure
    /\ Len(cdata) > nread

\* C19: an iteration of the classification loop that returns to the loop
\* head has increased nread, nread is at most 1024, and with the coroutine
\* scheduled and time passing the connection leaves Collecting.
C19_ClassificationTerminates ==
    /\ [][ (pc = "select" /\ pc' = "loop") => nread' > nread ]_vars
    /\ [](nread <= BufLen)
    /\ <>(~Collecting)

\* C19 witness: the connection was classified by the read that filled the
\* buffer.
C19_Witness ==
    /\ pc = "proxy"
    /\ nread = BufLen

\* The protocol found in the shortest prefix of a stream in which detect
\* finds one, None when there is none within the buffer.
FirstMatch(data) ==
    LET ks == { k \in 1..Min(Len(data), BufLen) : detect(Take(data, k)) # None } IN
    IF ks = {} THEN None
    ELSE detect(Take(data, CHOOSE k \in ks : \A j \in ks : k <= j))

\* C20: the protocol a connection is classified as depends only on the
\* client's bytes: it is the one found when they arrive one at a time.
C20_SplitIndependent ==
    proto # None => proto = FirstMatch(cdata)

\* ------------------------------------------------------------ SpecDetect
\* The recognizers and detect() applied to a prefix that grows by appending
\* pieces, as handle_connection presents it to detect() read after read.

MaxPieces == 3

Pad44 == [i \in 1..44 |-> 120]

Pieces ==
    { <<22>>, <<3>>, <<22, 3>>, <<1>>, <<4>>,
      <<83, 83, 72>>, <<45>>, B_SSH,
      <<71, 69>>, <<84>>, B_GET, B_HTTP, B_DELETE,
      <<106, 97, 98>>, <<98, 101, 114>>, B_JABBER,
      <<120>>, Pad44 }

\* The state of a connection that has not been accepted: SpecDetect leaves
\* it alone.
ConnIdle ==
    /\ cdata = <<>> /\ sdata = <<>> /\ grain = 1 /\ upstreams = {}
    /\ csent = 0 /\ ceof = FALSE /\ ssent = 0 /\ seof = FALSE
    /\ pc = "idle" /\ buf = <<>> /\ nread = 0 /\ cread = 0 /\ sread = 0
    /\ elapsed = 0 /\ age = 0 /\ proto = None /\ dials = 0
    /\ scratch = <<>> /\ upRecv = <<>> /\ clRecv = <<>>
    /\ shut = FALSE /\ cconn = "closed" /\ sconn = "none" /\ exit = ""
    /\ result = ""

DetectInit ==
    /\ prefix = <<>>
    /\ npieces = 0
    /\ verdict = Verdicts(<<>>)
    /\ detected = detect(<<>>)
    /\ everFailed = {}
    /\ everSucceeded = {}
    /\ ConnIdle
    /\ listener = "accepting" /\ conns = <<>>

\* More bytes arrive: the recognizers and detect() are run on the longer
\* prefix; what they said of the shorter one is remembered.
Extend(piece) ==
    /\ npieces < MaxPieces
    /\ prefix' = prefix \o piece
    /\ npieces' = npieces + 1
    /\ verdict' = Verdicts(prefix')
    /\ detected' = detect(prefix')
    /\ everFailed' = everFailed \cup { n \in protocol_names : verdict[n] = Failure }
    /\ everSucceeded' = everSucceeded \cup { n \in protocol_names : verdict[n] = Success }
    /\ UNCHANGED <<connVars, mainVars>>

DetectNext == \E piece \in Pieces : Extend(piece)

SpecDetect == DetectInit /\ [][DetectNext]_vars

\* ---- claims about detect.rs

\* "pat appears in p", stated on positions.
Contains(p, pat) ==
    \E i \in 0..(Len(p) - Len(pat)) : \A j \in 1..Len(pat) : p[i + j] = pat[j]

\* C3: detect returns the first name, in the order tls, http, ssh, xmpp, whose
\* recognizer says Success, and None exactly when no recognizer says Success.
C3_FirstMatchWins ==
    /\ detected = (IF verdict["tls"] = Success THEN "tls"
                   ELSE IF verdict["http"] = Success THEN "http"
                   ELSE IF verdict["ssh"] = Success THEN "ssh"
                   ELSE IF verdict["xmpp"] = Success THEN "xmpp"
                   ELSE None)
    /\ (detected = None) <=>
          (\A n \in {"tls", "http", "ssh", "xmpp"} : verdict[n] \in {Failure, NotEnoughData})

\* C3 witness: two recognizers match the same prefix and the earlier entry wins.
C3_Witness ==
    /\ verdict["http"] = Success
    /\ verdict["ssh"] = Success
    /\ detected = "http"

\* The claimed policy of each recognizer.
PolicyMin(n) ==
    CASE n = "tls" -> 3 [] n = "ssh" -> 4 [] n = "http" -> 3 [] n = "xmpp" -> 50

PolicySignature(n, p) ==
    CASE n = "tls" -> p[1] = 22 /\ p[2] = 3 /\ p[3] <= 3
      [] n = "ssh" -> \A j \in 1..4 : p[j] = B_SSH[j]
      [] n = "http" ->
            \/ Contains(p, B_HTTP)
            \/ \E m \in {B_GET, B_PUT, B_HEAD, B_POST, B_TRACE, B_DELETE,
                         B_CONNECT, B_OPTIONS} : Contains(p, m)
      [] n = "xmpp" -> Contains(p, B_JABBER)

\* C4: every recognizer says NotEnoughData exactly below its minimum, and at
\* or above it Success iff its signature holds, Failure otherwise.
C4_RecognizersFollowPolicy ==
    \A n \in {"tls", "http", "ssh", "xmpp"} :
        /\ (verdict[n] = NotEnoughData) <=> (Len(prefix) < PolicyMin(n))
        /\ Len(prefix) >= PolicyMin(n) =>
              /\ (verdict[n] = Success) <=> PolicySignature(n, prefix)
              /\ (verdict[n] = Failure) <=> ~PolicySignature(n, prefix)

\* C4 witness: a prefix of exactly xmpp's minimum that xmpp accepts and
\* the other three reject.
C4_Witness ==
    /\ Len(prefix) = 50
    /\ verdict["xmpp"] = Success
    /\ \A n \in {"tls", "http", "ssh"} : verdict[n] = Failure

\* C5 as claimed: a recognizer that said Failure on a prefix never says
\* Success on an extension of it.
C5_FailureIsFinal ==
    \A n \in everFailed : verdict[n] # Success

\* C5 as amended: a recognizer that said Failure on a prefix never says
\* NotEnoughData on an extension, and the anchored recognizers (tls, ssh)
\* say Failure on every extension.
C5_AnchoredFailureIsFinal ==
    \A n \in everFailed :
        /\ verdict[n] # NotEnoughData
        /\ n \in {"tls", "ssh"} => verdict[n] = Failure

\* C5 witness: ssh and tls rejected a prefix, and its extension holds "SSH-"
\* further on.
C5_Witness ==
    /\ {"tls", "ssh"} \subseteq everFailed
    /\ Contains(prefix, B_SSH)

\* C6: a recognizer that said Success on a prefix says Success on every
\* extension of it.
C6_SuccessIsMonotone ==
    \A n \in everSucceeded : verdict[n] = Success

\* C6 witness: a prefix matched by two recognizers has been extended twice.
C6_Witness ==
    /\ Cardinality(everSucceeded) >= 2
    /\ npieces = MaxPieces

\* ------------------------------------------------------------ SpecMain
\* main.rs:231-245: the accept loop and the coroutines it spawns. Each
\* coroutine is followed from one blocking call to the next: the select! of
\* handle_connection, the dial and replay of handle_proxy, the select! of
\* handle_proxy. What the bytes are is left open: every outcome the
\* connection's code can produce at a blocking call is possible.

MaxConns == 3

\* What can wake a coroutine blocked at `at`.
Events(at) ==
    CASE at = "select"  -> {"data", "eof", "err", "timer"}
      [] at = "connect" -> {"ok", "err"}
      [] at = "relay"   -> {"data", "eof", "err"}
      [] OTHER          -> {}

\* Where a coroutine woken at `at` by `ev` blocks next, and what it has
\* returned when it is done.
Outcomes(at, ev) ==
    CASE at = "select" /\ ev = "data" ->
             { [pc |-> "select", res |-> ""],      \* detect: None, room left
               [pc |-> "connect", res |-> ""],     \* classified, upstream known
               [pc |-> "done", res |-> "Ok"] }     \* no upstream, or gave up
      [] at = "select" /\ ev = "eof" ->
             { [pc |-> "connect", res |-> ""],
               [pc |-> "done", res |-> "Ok"] }
      [] at = "select" /\ ev = "err" -> { [pc |-> "done", res |-> "Err"] }
      [] at = "select" /\ ev = "timer" -> { [pc |-> "done", res |-> "Ok"] }
      [] at = "connect" /\ ev = "ok" -> { [pc |-> "relay", res |-> ""] }
      [] at = "connect" /\ ev = "err" -> { [pc |-> "done", res |-> "Err"] }
      [] at = "relay" /\ ev = "data" ->
             { [pc |-> "relay", res |-> ""],
               [pc |-> "done", res |-> "Err"] }    \* write_all failed
      [] at = "relay" /\ ev = "eof" -> { [pc |-> "done", res |-> "Ok"] }
      [] at = "relay" /\ ev = "err" -> { [pc |-> "done", res |-> "Err"] }
      [] OTHER -> {}

MainInit ==
    /\ prefix = <<>>
    /\ npieces = 0
    /\ verdict = Verdicts(<<>>)
    /\ detected = detect(<<>>)
    /\ everFailed = {}
    /\ everSucceeded = {}
    /\ ConnIdle
    /\ listener = "accepting"
    /\ conns = <<>>

\* main.rs:238-243: accept() returns a connection, a coroutine is spawned
\* for it and blocks in handle_connection's select!.
Accept ==
    /\ listener = "accepting"
    /\ Len(conns) < MaxConns
    /\ conns' = Append(conns, [pc |-> "select", ev |-> None, res |-> ""])
    /\ UNCHANGED <<detectVars, connVars, listener>>

\* main.rs:238: accept() returns Err; try! returns it from the closure given
\* to mioco::start, which ends the loop. The coroutines already spawned go on.
AcceptErr ==
    /\ listener = "accepting"
    /\ listener' = "stopped"
    /\ UNCHANGED <<detectVars, connVars, conns>>

\* Something the coroutine i waits for happens: bytes or end of stream on a
\* socket, an error, its timer, the outcome of its dial.
Event(i, ev) ==
    /\ i \in 1..Len(conns)
    /\ conns[i].ev = None
    /\ ev \in Events(conns[i].pc)
    /\ conns' = [conns EXCEPT ![i].ev = ev]
    /\ UNCHANGED <<detectVars, connVars, listener>>

\* Resume with the Err of handle_connection returned from the accept loop.
ResumePropagates(i) ==
    /\ i \in 1..Len(conns)
    /\ conns[i].ev # None
    /\ \E o \in Outcomes(conns[i].pc, conns[i].ev) :
          /\ conns' = [conns EXCEPT ![i] = [pc |-> o.pc, ev |-> None, res |-> o.res]]
          /\ listener' = IF o.res = "Err" THEN "stopped" ELSE listener
    /\ UNCHANGED <<detectVars, connVars>>

\* main.rs:241-243: the coroutine i is woken and runs handle_connection up to
\* its next blocking call, or to its return; what it returns stays in the
\* coroutine.
Resume(i) ==
    /\ i \in 1..Len(conns)
    /\ conns[i].ev # None
    /\ \E o \in Outcomes(conns[i].pc, conns[i].ev) :
          conns' = [conns EXCEPT ![i] = [pc |-> o.pc, ev |-> None, res |-> o.res]]
    /\ UNCHANGED <<detectVars, connVars, listener>>

MainNext ==
    \/ Accept
    \/ AcceptErr
    \/ \E i \in 1..MaxConns, ev \in {"data", "eof", "err", "timer", "ok"} : Event(i, ev)
    \/ \E i \in 1..MaxConns : Resume(i)

SpecMain == MainInit /\ [][MainNext]_vars

\* ---- claims about the accept loop

\* C15: a step of one connection changes neither the listener nor any other
\* connection, whatever it is (a failure included); a connection whose event
\* has arrived can run whatever state the others are in, stalled or failed;
\* and the listener, while it accepts, can accept whatever state they are in.
C15_ConnectionsIsolated ==
    /\ [][ \A i \in 1..Len(conns) :
              conns'[i] # conns[i] =>
                 /\ listener' = listener
                 /\ Len(conns') = Len(conns)
                 /\ \A j \in 1..Len(conns) : j # i => conns'[j] = conns[j] ]_vars
    /\ [](\A j \in 1..Len(conns) : conns[j].ev # None => ENABLED Resume(j))
    /\ [](listener = "accepting" /\ Len(conns) < MaxConns => ENABLED Accept)

\* C15 witness: the first connection accepted is stalled in classification,
\* a later one has failed, and one accepted after both is being relayed
\* while the listener is still accepting.
C15_Witness ==
    /\ Len(conns) = 3
    /\ conns[1].pc = "select" /\ conns[1].ev = None
    /\ conns[2].pc = "done" /\ conns[2].res = "Err"
    /\ conns[3].pc = "relay"
    /\ listener = "accepting"

\* C16: after startup the accept loop never ends: the listener is accepting
\* in every reachable state.
C16_ListenerNeverStops ==
    listener = "accepting"

====
